---- MODULE Spec2Model ----
(***************************************************************************)
(* DDWrap (src/ddwrap.py): a Qt front end that writes a disk image to a    *)
(* block device with dd.  The model has three kinds of actors:             *)
(*   - the foreground (Qt event loop of DDGui): the handlers start_dd,     *)
(*     update_dev_capacity, unmount_device, update_progress, dd_finished;  *)
(*   - one DDWorker thread per accepted commit (DDWorker.run);             *)
(*   - the environment: the copy subprocesses and the mount / holder       *)
(*     state of the block devices.                                         *)
(* Texts are sequences of chunks (a chunk is a run of characters), so that *)
(* strip(), f-strings, ' '.join() and the "in" test are computed.          *)
(***************************************************************************)
EXTENDS Integers, Sequences, FiniteSets, TLC

MaxRuns == 1      \* DDWorker objects created in one behaviour of Spec, SpecRun
MaxRepeat == 2    \* DDWorker objects created in one behaviour of SpecRepeat
MaxLines == 2     \* stderr lines the copy subprocesses write in one behaviour

VARIABLES host, blk, dev_items, dev_combo, dev_size_label, start_btn,
          unmount_btn, progress_display, commit, workers, procs, queue, received,
          reported, crashed

vars == <<host, blk, dev_items, dev_combo, dev_size_label, start_btn,
          unmount_btn, progress_display, commit, workers, procs, queue, received,
          reported, crashed>>

\* host, blk          the machine: privileges and tools; mounts and holders of
\*                    the block devices
\* dev_items ...      the widgets DDGui reads: items and text of dev_combo, the
\*                    text of dev_size_label, whether start_btn and unmount_btn
\*                    are enabled, the lines of progress_display
\* commit             the running or last start_dd: where it stands, its locals,
\*                    what the exclusive open and the dialog returned, the error
\*                    box it showed, the worker it started
\* workers, procs     per DDWorker created, in order (self.worker is the last):
\*                    the thread and the subprocess it launched
\* queue              the signals emitted by workers and not yet delivered
\* received, reported per worker: the texts update_progress was called with and
\*                    what dd_finished told the operator
\* crashed            an exception left a slot or run(): the application is gone
machine == <<host, blk, dev_items>>
buttons == <<start_btn, unmount_btn>>

(* ------------------------------ texts ---------------------------------- *)
Devices == {"/dev/sdb"}            \* the sd* disk nodes os.listdir("/dev") can show
Mountpoints == {"/mnt/usb"}
Files == {"/tmp/a.img"}            \* the paths that exist
BlockSizes == {"64k", "256k", "512k", "1M", "2M"}
\* what the operator has typed or browsed into input_edit
InputTexts == {<<>>, <<"/tmp/gone.img">>, <<"/tmp/a.img">>, <<" ", "/tmp/a.img", "\n">>}
\* what the operator has set in bs_combo, sync_checkbox, progress_checkbox
Options == {[bs |-> "512k", sync |-> TRUE, prog |-> TRUE],
            [bs |-> "1M", sync |-> FALSE, prog |-> FALSE]}

IsSpace(c) == c \in {" ", "\n", "\t"}

RECURSIVE LStrip(_)
LStrip(s) == IF s = <<>> THEN s
             ELSE IF IsSpace(Head(s)) THEN LStrip(Tail(s)) ELSE s

RECURSIVE RStrip(_)
RStrip(s) == IF s = <<>> THEN s
             ELSE IF IsSpace(s[Len(s)]) THEN RStrip(SubSeq(s, 1, Len(s) - 1)) ELSE s

Strip(s) == RStrip(LStrip(s))

RECURSIVE Join(_)
Join(toks) == IF toks = <<>> THEN <<>>
              ELSE IF Len(toks) = 1 THEN toks[1]
              ELSE toks[1] \o <<" ">> \o Join(Tail(toks))

ContainsBytes(line) == \E i \in 1..Len(line) : line[i] \in {"bytes"}

(* ------------------------ privilege helpers ---------------------------- *)
is_root == host.root
has_sudo == host.sudo
has_doas == host.doas
has_pkexec == host.pkexec

(* ------------------------- operating system ---------------------------- *)
\* mutant: no test of the input path
path_exists_Any(p) == TRUE

path_exists(p) == Len(p) = 1 /\ p[1] \in Files

\* the path names a disk that is listed and still plugged in
NodeExists(p) == Len(p) = 1 /\ p[1] \in dev_items /\ ~blk[p[1]].gone

\* mutant: the open without O_EXCL, which a mount does not refuse
os_open_excl_NoExcl(p) ==
    IF ~NodeExists(p) THEN "ENOENT"
    ELSE IF ~host.canWrite THEN "EACCES"
    ELSE "OK"

\* mutant: an open that skips the permission check of the device node
os_open_excl_NoPerm(p) ==
    IF ~NodeExists(p) THEN "ENOENT"
    ELSE IF blk[p[1]].mounts # {} \/ blk[p[1]].held THEN "EBUSY"
    ELSE "OK"

\* os.open(ofile, O_WRONLY | O_EXCL): the path is looked up, then the
\* permission to write the node is checked, then the block layer refuses the
\* exclusive claim of a device that a mount or another holder has claimed
os_open_excl(p) ==
    IF ~NodeExists(p) THEN "ENOENT"
    ELSE IF ~host.canWrite THEN "EACCES"
    ELSE IF blk[p[1]].mounts # {} \/ blk[p[1]].held THEN "EBUSY"
    ELSE "OK"

(* ------------------------------- lsblk --------------------------------- *)
\* subprocess.run(["lsblk", ...]) raises FileNotFoundError when there is no
\* lsblk to execute
lsblk_found == host.lsblk

\* stdout of lsblk -b -dn -o SIZE device: the size in bytes and a newline, or
\* nothing (lsblk exits with an error) for a device that is gone
DiskBytes == "8004304896"
lsblk_size(p) == IF NodeExists(p) THEN <<DiskBytes, "\n">> ELSE <<>>

\* int(text) succeeds on a text that is one number
IsInt(s) == s = <<DiskBytes>>

\* human_readable(int(text)) for the sizes lsblk_size prints
human_readable(s) == IF s = <<DiskBytes>> THEN <<"7.45 GB">> ELSE <<"?">>

\* the try block of update_dev_capacity: the text dev_size_label gets; every
\* exception (no lsblk, int() of an empty text) yields N/A
CapacityLabel(p) ==
    IF lsblk_found /\ IsInt(Strip(lsblk_size(p)))
    THEN <<"Device Capacity: ">> \o human_readable(Strip(lsblk_size(p)))
    ELSE <<"Device Capacity: ", "N/A">>

\* stdout of lsblk -n -o MOUNTPOINT device: one line per block device of the
\* tree, empty when it has no mountpoint; nothing for a device that is gone
RECURSIVE SetToLines(_)
SetToLines(S) ==
    IF S = {} THEN <<>>
    ELSE LET m == CHOOSE x \in S : TRUE IN <<m, "\n">> \o SetToLines(S \ {m})

lsblk_mountpoint(p) ==
    IF NodeExists(p) THEN <<"\n">> \o SetToLines(blk[p[1]].mounts) ELSE <<>>

\* mutant: a device counts as mounted when lsblk printed anything at all
get_mounted_partitions_Raw(p) == lsblk_mountpoint(p) # <<>>

\* bool(result.stdout.strip()), given that lsblk was found
get_mounted_partitions(p) == Strip(lsblk_mountpoint(p)) # <<>>

(* --------------------------- construction ------------------------------ *)
NoCommit == [pc |-> "idle", infile |-> <<>>, ofile |-> <<>>, excl |-> "none",
             reply |-> "none", box |-> "none", spawned |-> 0]

\* root: geteuid() = 0; sudo, doas, pkexec: shutil.which finds the tool;
\* canWrite: the permission check of an open for writing of a device node
\* passes (it always does for root); lsblk: there is an lsblk to execute
Hosts == {h \in [root : BOOLEAN, sudo : BOOLEAN, doas : BOOLEAN, pkexec : BOOLEAN,
                 canWrite : BOOLEAN, lsblk : {TRUE}] : h.root => h.canWrite}

\* the text eta_label is created with; no statement of the program sets it
\* again, and none sets the value of progress_bar
eta_label == <<"Progress: ", "0", "% - ETA: N/A">>

\* self.image_size_bytes once the operator has picked the image with Browse
\* (show_file_size): os.path.getsize of the image, in the unit of the byte
\* counts of StderrLine
image_size_bytes == 2

\* the text dev_size_label is created with
NoCapacity == <<"Target Device Capacity: N/A">>

\* the state when DDGui() returns on a host with lsblk: refresh_devices has
\* filled dev_combo with the disks found and, when there is one,
\* update_dev_capacity has set the label and the two buttons
Constructed(hosts, itemsets) ==
    /\ host \in hosts
    /\ dev_items \in itemsets
    /\ blk \in [dev_items -> [mounts : SUBSET Mountpoints, held : BOOLEAN,
                              gone : {FALSE}]]
    /\ dev_combo \in IF dev_items = {} THEN {<<>>} ELSE {<<d>> : d \in dev_items}
    /\ dev_size_label = IF dev_items = {} THEN NoCapacity ELSE CapacityLabel(dev_combo)
    /\ start_btn = IF dev_items = {} THEN TRUE ELSE ~get_mounted_partitions(dev_combo)
    /\ unmount_btn = IF dev_items = {} THEN TRUE ELSE get_mounted_partitions(dev_combo)
    /\ progress_display = <<>>
    /\ commit = NoCommit
    /\ workers = <<>>
    /\ procs = <<>>
    /\ queue = <<>>
    /\ received = <<>>
    /\ reported = <<>>
    /\ crashed = FALSE

Init == Constructed(Hosts, SUBSET Devices)

(* ----------------------- pieces of start_dd ---------------------------- *)
\* mutant: PermissionError handled by the OSError clause
ExclusiveOpenBox_BusyOnly(errno) == IF errno = "OK" THEN "none" ELSE "Device Busy"

\* except PermissionError / except OSError: the title of the error box
ExclusiveOpenBox(errno) ==
    IF errno = "OK" THEN "none"
    ELSE IF errno = "EACCES" THEN "Permission Error"
    ELSE "Device Busy"

\* QMessageBox.warning(..., Ok | Cancel, Cancel): what each way of ending the
\* dialog returns; confirm_destructive_write is reply == Ok
Interactions == {"click_ok", "click_cancel", "enter", "escape"}

\* mutant: Ok as the default button of the dialog
warning_reply_DefaultOk(i) == IF i \in {"click_ok", "enter"} THEN "Ok" ELSE "Cancel"

warning_reply(i) == IF i = "click_ok" THEN "Ok" ELSE "Cancel"

\* mutant: the reply of the dialog ignored
confirm_destructive_write_Always(i) == TRUE

confirm_destructive_write(i) == warning_reply(i) = "Ok"

\* mutant: the two optional flags appended in the other order
BuildCmd_ProgressFirst(infile, ofile, bs, sync, prog) ==
    << <<"dd">>, <<"if=">> \o infile, <<"of=">> \o ofile, <<"bs=", bs>> >>
    \o (IF prog THEN << <<"status=progress">> >> ELSE <<>>)
    \o (IF sync THEN << <<"oflag=sync">> >> ELSE <<>>)

\* cmd = ["dd", f"if={infile}", f"of={ofile}", f"bs=..."] + optional flags
BuildCmd(infile, ofile, bs, sync, prog) ==
    << <<"dd">>, <<"if=">> \o infile, <<"of=">> \o ofile, <<"bs=", bs>> >>
    \o (IF sync THEN << <<"oflag=sync">> >> ELSE <<>>)
    \o (IF prog THEN << <<"status=progress">> >> ELSE <<>>)

\* mutant: doas probed before sudo
PrivilegePrefix_DoasFirst ==
    IF is_root THEN <<>>
    ELSE IF has_doas THEN << <<"doas">> >>
    ELSE IF has_sudo THEN << <<"sudo">> >>
    ELSE IF has_pkexec THEN << <<"pkexec">> >>
    ELSE "Unavailable"

\* mutant: no return after the Privileges error, dd runs without a prefix
PrivilegePrefix_NoStop ==
    IF is_root THEN <<>>
    ELSE IF has_sudo THEN << <<"sudo">> >>
    ELSE IF has_doas THEN << <<"doas">> >>
    ELSE IF has_pkexec THEN << <<"pkexec">> >>
    ELSE <<>>

\* if not is_root(): sudo, else doas, else pkexec, else the Privileges error
PrivilegePrefix ==
    IF is_root THEN <<>>
    ELSE IF has_sudo THEN << <<"sudo">> >>
    ELSE IF has_doas THEN << <<"doas">> >>
    ELSE IF has_pkexec THEN << <<"pkexec">> >>
    ELSE "Unavailable"

(* ------------------------- foreground handlers ------------------------- *)
\* update_dev_capacity: the label follows the size query, whose exceptions
\* are caught; the two buttons follow the mount query, whose exception leaves
\* the handler
UpdateDevCapacity(device) ==
    IF device = <<>>
    THEN UNCHANGED <<dev_size_label, buttons, crashed>>
    ELSE /\ dev_size_label' = CapacityLabel(device)
         /\ IF lsblk_found
            THEN /\ start_btn' = ~get_mounted_partitions(device)
                 /\ unmount_btn' = get_mounted_partitions(device)
                 /\ UNCHANGED crashed
            ELSE crashed' = TRUE /\ UNCHANGED buttons

\* refresh_devices, the last statement of DDGui.__init__: addItems makes the
\* first disk found the current text, and update_dev_capacity runs for it
RefreshDevices ==
    /\ ~crashed /\ commit.pc = "construct"
    /\ IF dev_items = {}
       THEN UNCHANGED <<dev_combo, dev_size_label, buttons, crashed>>
       ELSE \E d \in dev_items : dev_combo' = <<d>> /\ UpdateDevCapacity(<<d>>)
    /\ commit' = NoCommit
    /\ UNCHANGED <<machine, progress_display, workers, procs, queue, received,
                   reported>>

\* the operator picks another item of dev_combo: currentTextChanged runs
\* update_dev_capacity
SelectDevice(d) ==
    /\ ~crashed /\ commit.pc = "idle"
    /\ d \in dev_items /\ dev_combo # <<d>>
    /\ dev_combo' = <<d>>
    /\ UpdateDevCapacity(Strip(<<d>>))
    /\ UNCHANGED <<machine, progress_display, commit, workers, procs, queue,
                   received, reported>>

\* unmount_device: ["sudo", "umount", f"{device}*"] is run without a shell, so
\* the glob is passed literally and names no mounted device; a missing sudo
\* raises out of the slot.
UnmountDevice ==
    /\ ~crashed /\ commit.pc = "idle" /\ unmount_btn
    /\ IF has_sudo
       THEN UpdateDevCapacity(Strip(dev_combo))
       ELSE crashed' = TRUE /\ UNCHANGED <<dev_size_label, buttons>>
    /\ UNCHANGED <<machine, dev_combo, progress_display, commit, workers, procs,
                   queue, received, reported>>

\* start_dd up to the confirmation dialog (lines 226-247);
\* confirm_destructive_write runs lsblk (get_lsblk_info) before it shows the
\* dialog, and the exception of a missing lsblk leaves the handler
StartDD(inp) ==
    /\ ~crashed /\ commit.pc = "idle" /\ start_btn
    /\ LET infile == Strip(inp)
           ofile == Strip(dev_combo)
           errno == os_open_excl(ofile)
           opened == path_exists(infile) /\ ExclusiveOpenBox(errno) = "none"
       IN /\ commit' =
               IF ~path_exists(infile) THEN [NoCommit EXCEPT !.box = "Error"]
               ELSE IF ExclusiveOpenBox(errno) # "none"
                    THEN [NoCommit EXCEPT !.excl = errno, !.box = ExclusiveOpenBox(errno)]
               ELSE IF ~lsblk_found THEN [NoCommit EXCEPT !.excl = errno]
               ELSE [NoCommit EXCEPT !.excl = errno, !.pc = "confirm",
                                     !.infile = infile, !.ofile = ofile]
          /\ crashed' = (opened /\ ~lsblk_found)
    /\ UNCHANGED <<machine, dev_combo, dev_size_label, buttons, progress_display,
                   workers, procs, queue, received, reported>>

\* start_dd from the return of the dialog to worker.start() (lines 247-273);
\* the locals are gone when it returns
ConfirmReply(i, opt, cap) ==
    /\ ~crashed /\ commit.pc = "confirm"
    /\ LET cmd == BuildCmd(commit.infile, commit.ofile, opt.bs, opt.sync, opt.prog)
           id == Len(workers) + 1
           done == [NoCommit EXCEPT !.excl = commit.excl, !.reply = warning_reply(i)]
       IN IF ~confirm_destructive_write(i)
          THEN /\ commit' = done
               /\ UNCHANGED <<progress_display, workers, procs, received, reported>>
          ELSE IF PrivilegePrefix = "Unavailable"
          THEN /\ commit' = [done EXCEPT !.box = "Privileges"]
               /\ UNCHANGED <<progress_display, workers, procs, received, reported>>
          ELSE /\ id <= cap
               /\ commit' = [done EXCEPT !.spawned = id]
               /\ progress_display' = Append(progress_display,
                      <<"Running: ">> \o Join(PrivilegePrefix \o cmd) \o <<"\n">>)
               /\ workers' = Append(workers,
                      [cmd |-> PrivilegePrefix \o cmd, pc |-> "started",
                       returncode |-> "None",
                       gate |-> [excl |-> commit.excl, reply |-> warning_reply(i),
                                 infile |-> commit.infile, ofile |-> commit.ofile]])
               /\ procs' = Append(procs, [st |-> "none", argv |-> <<>>,
                                          written |-> <<>>, pipe |-> <<>>,
                                          status |-> "None"])
               /\ received' = Append(received, <<>>)
               /\ reported' = Append(reported, "none")
    /\ UNCHANGED <<machine, dev_combo, dev_size_label, buttons, queue, crashed>>

\* worker.progress.connect(update_progress), worker.finished.connect(
\* dd_finished): the signals of another thread are queued and their slots run
\* in the foreground, oldest first
NextEvent(q) == Head(q)
RestEvents(q) == Tail(q)

\* update_progress(text) or dd_finished()
DeliverEvent ==
    /\ ~crashed /\ queue # <<>>
    /\ LET e == NextEvent(queue)
       IN IF e.sig = "progress"
          THEN /\ progress_display' = Append(progress_display, e.text)
               /\ received' = [received EXCEPT ![e.src] = Append(@, e.text)]
               /\ UNCHANGED reported
          ELSE /\ reported' = [reported EXCEPT ![e.src] = "Completed"]
               /\ UNCHANGED <<progress_display, received>>
    /\ queue' = RestEvents(queue)
    /\ UNCHANGED <<machine, dev_combo, dev_size_label, buttons, commit, workers, procs, crashed>>

(* ----------------------------- DDWorker.run ---------------------------- *)
Runs == 1..Len(workers)

\* subprocess.Popen(self.cmd, stderr=PIPE, text=True): without shell=True the
\* items of the list are the arguments of the subprocess; a launch failure
\* raises
WorkerPopen(w, ok) ==
    /\ ~crashed /\ workers[w].pc = "started"
    /\ IF ok
       THEN /\ workers' = [workers EXCEPT ![w].pc = "reading"]
            /\ procs' = [procs EXCEPT ![w].st = "running", ![w].argv = workers[w].cmd]
            /\ UNCHANGED crashed
       ELSE /\ workers' = [workers EXCEPT ![w].pc = "raised"]
            /\ crashed' = TRUE
            /\ UNCHANGED procs
    /\ UNCHANGED <<machine, dev_combo, dev_size_label, buttons, progress_display, commit, queue,
                   received, reported>>

\* mutant: the signal emitted twice for a line
LineEvents_Twice(w, line) ==
    IF ContainsBytes(line)
    THEN << [sig |-> "progress", src |-> w, text |-> Strip(line)],
            [sig |-> "progress", src |-> w, text |-> Strip(line)] >>
    ELSE <<>>

\* the signals one stderr line makes run() emit
LineEvents(w, line) ==
    IF ContainsBytes(line)
    THEN << [sig |-> "progress", src |-> w, text |-> Strip(line)] >>
    ELSE <<>>

\* for line in process.stderr: if "bytes" in line: progress.emit(line.strip())
WorkerRead(w) ==
    /\ ~crashed /\ workers[w].pc = "reading" /\ procs[w].pipe # <<>>
    /\ queue' = queue \o LineEvents(w, Head(procs[w].pipe))
    /\ procs' = [procs EXCEPT ![w].pipe = Tail(@)]
    /\ UNCHANGED <<machine, dev_combo, dev_size_label, buttons, progress_display, commit, workers,
                   received, reported, crashed>>

\* the for loop ends when the stream is closed; process.wait() returns when
\* the subprocess has exited
StreamClosed(p) == p.st \in {"closed", "exited"}

\* mutant: no process.wait() between the loop and finished.emit()
WaitReturned_OnClose(p) == p.st \in {"closed", "exited"}

WaitReturned(p) == p.st = "exited"

\* end of the stream, then process.wait(), then finished.emit().  When
\* start_dd has meanwhile replaced self.worker, the thread that returns from
\* run() holds the last reference to its QThread: destroying it there may abort
\* the application ("QThread: Destroyed while thread is still running").
WorkerWait(w, abort) ==
    /\ ~crashed /\ workers[w].pc = "reading"
    /\ procs[w].pipe = <<>> /\ StreamClosed(procs[w]) /\ WaitReturned(procs[w])
    /\ abort => w < Len(workers)
    /\ workers' = [workers EXCEPT ![w].pc = "finished", ![w].returncode = procs[w].status]
    /\ queue' = Append(queue, [sig |-> "finished", src |-> w, text |-> <<>>])
    /\ crashed' = abort
    /\ UNCHANGED <<machine, dev_combo, dev_size_label, buttons, progress_display, commit, procs,
                   received, reported>>

(* ----------------------------- environment ----------------------------- *)
\* the copy subprocess: the n-th line of its stderr either reports the bytes
\* copied so far or is another message; it may close stderr before it exits;
\* its exit status is 0, an error, or minus the signal that terminated it
LineKinds == {"bytes", "records"}
ExitStatuses == {0, 1, -15}
StderrLine(n, kind) == <<ToString(n), " ", kind, "\n">>

RECURSIVE SumOut(_)
SumOut(ps) == IF ps = <<>> THEN 0 ELSE Len(Head(ps).written) + SumOut(Tail(ps))

ProcWrite(w, kind) ==
    /\ procs[w].st = "running" /\ SumOut(procs) < MaxLines
    /\ LET line == StderrLine(Len(procs[w].written) + 1, kind)
       IN procs' = [procs EXCEPT ![w].written = Append(@, line),
                                 ![w].pipe = Append(@, line)]
    /\ UNCHANGED <<machine, dev_combo, dev_size_label, buttons, progress_display, commit, workers,
                   queue, received, reported, crashed>>

ProcClose(w) ==
    /\ procs[w].st = "running"
    /\ procs' = [procs EXCEPT ![w].st = "closed"]
    /\ UNCHANGED <<machine, dev_combo, dev_size_label, buttons, progress_display, commit, workers,
                   queue, received, reported, crashed>>

ProcExit(w, rc) ==
    /\ procs[w].st \in {"running", "closed"}
    /\ procs' = [procs EXCEPT ![w].st = "exited", ![w].status = rc]
    /\ UNCHANGED <<machine, dev_combo, dev_size_label, buttons, progress_display, commit, workers,
                   queue, received, reported, crashed>>

\* a mount or an unmount of the device by anyone
EnvMount(d, m) ==
    /\ blk' = [blk EXCEPT ![d].mounts = IF m \in @ THEN @ \ {m} ELSE @ \cup {m}]
    /\ UNCHANGED <<host, dev_items, dev_combo, dev_size_label, buttons, progress_display, commit,
                   workers, procs, queue, received, reported, crashed>>

\* the disk is unplugged or plugged in again
EnvUnplug(d) ==
    /\ blk' = [blk EXCEPT ![d].gone = ~@]
    /\ UNCHANGED <<host, dev_items, dev_combo, dev_size_label, buttons,
                   progress_display, commit, workers, procs, queue, received,
                   reported, crashed>>

\* lsblk is removed from or added to the directories of PATH
EnvLsblk ==
    /\ host' = [host EXCEPT !.lsblk = ~@]
    /\ UNCHANGED <<blk, dev_items, dev_combo, dev_size_label, buttons,
                   progress_display, commit, workers, procs, queue, received,
                   reported, crashed>>

\* another process takes or gives up an exclusive hold of the device
EnvHold(d) ==
    /\ blk' = [blk EXCEPT ![d].held = ~@]
    /\ UNCHANGED <<host, dev_items, dev_combo, dev_size_label, buttons, progress_display, commit,
                   workers, procs, queue, received, reported, crashed>>

(* --------------------------- specifications --------------------------- *)
\* The commit path: every host, the device list empty or holding one disk,
\* which is mounted, held and released behind the program's back.  A copy
\* subprocess is followed from its launch to its exit and to dd_finished; it
\* writes nothing to its stderr.  (With at most one item in dev_combo,
\* currentTextChanged is not emitted after construction.)
Next ==
    \/ UnmountDevice
    \/ \E inp \in InputTexts : StartDD(inp)
    \/ \E i \in Interactions, opt \in Options : ConfirmReply(i, opt, MaxRuns)
    \/ DeliverEvent
    \/ \E w \in Runs, ok \in BOOLEAN : WorkerPopen(w, ok)
    \/ \E w \in Runs, abort \in BOOLEAN : WorkerWait(w, abort)
    \/ \E w \in Runs, rc \in ExitStatuses : ProcExit(w, rc)
    \/ \E d \in dev_items, m \in Mountpoints : EnvMount(d, m)
    \/ \E d \in dev_items : EnvHold(d)

Spec == Init /\ [][Next]_vars

\* The run path: one host that can launch dd and one idle device; the copy
\* subprocesses write stderr lines, close the stream and exit, the workers
\* read and the event loop delivers.
RunHosts == {[root |-> FALSE, sudo |-> TRUE, doas |-> FALSE, pkexec |-> FALSE,
              canWrite |-> TRUE, lsblk |-> TRUE]}

InitRun ==
    /\ Constructed(RunHosts, {Devices})
    /\ \A d \in Devices : blk[d] = [mounts |-> {}, held |-> FALSE, gone |-> FALSE]

RunStep(cap) ==
    \/ \E inp \in InputTexts : StartDD(inp)
    \/ \E i \in Interactions, opt \in Options : ConfirmReply(i, opt, cap)
    \/ DeliverEvent
    \/ \E w \in Runs, ok \in BOOLEAN : WorkerPopen(w, ok)
    \/ \E w \in Runs : WorkerRead(w)
    \/ \E w \in Runs, abort \in BOOLEAN : WorkerWait(w, abort)
    \/ \E w \in Runs, k \in LineKinds : ProcWrite(w, k)
    \/ \E w \in Runs : ProcClose(w)
    \/ \E w \in Runs, rc \in ExitStatuses : ProcExit(w, rc)

NextRun == RunStep(MaxRuns)

SpecRun == InitRun /\ [][NextRun]_vars

\* The run path with the Start button pressed again while workers are alive.
NextRepeat == RunStep(MaxRepeat)

SpecRepeat == InitRun /\ [][NextRepeat]_vars

\* The command: every host, one idle disk and every setting of bs_combo and
\* the two checkboxes, up to the launch of the subprocess.
AllOptions == [bs : BlockSizes, sync : BOOLEAN, prog : BOOLEAN]

InitCmd ==
    /\ Constructed(Hosts, {Devices})
    /\ \A d \in Devices : blk[d] = [mounts |-> {}, held |-> FALSE, gone |-> FALSE]

NextCmd ==
    \/ \E inp \in InputTexts : StartDD(inp)
    \/ \E i \in Interactions, opt \in AllOptions : ConfirmReply(i, opt, MaxRuns)
    \/ \E w \in Runs, ok \in BOOLEAN : WorkerPopen(w, ok)

SpecCmd == InitCmd /\ [][NextCmd]_vars

\* The device selection: two disks, lsblk present or not, from the last
\* statement of the constructor on; the disks are mounted, unmounted, unplugged
\* and plugged in, lsblk disappears and comes back, the operator picks a
\* disk, unmounts and starts; no worker thread is followed.
ToolDevices == {"/dev/sdb", "/dev/sdc"}
ToolHosts == {h \in [root : {FALSE}, sudo : BOOLEAN, doas : {FALSE}, pkexec : {FALSE},
                     canWrite : {TRUE}, lsblk : BOOLEAN] : TRUE}

InitTools ==
    /\ host \in ToolHosts
    /\ dev_items \in {{}, ToolDevices}
    /\ blk \in [dev_items -> [mounts : SUBSET Mountpoints, held : {FALSE},
                              gone : {FALSE}]]
    /\ dev_combo = <<>>
    /\ dev_size_label = NoCapacity
    /\ start_btn = TRUE
    /\ unmount_btn = TRUE
    /\ progress_display = <<>>
    /\ commit = [NoCommit EXCEPT !.pc = "construct"]
    /\ workers = <<>>
    /\ procs = <<>>
    /\ queue = <<>>
    /\ received = <<>>
    /\ reported = <<>>
    /\ crashed = FALSE

NextTools ==
    \/ RefreshDevices
    \/ \E d \in dev_items : SelectDevice(d)
    \/ UnmountDevice
    \/ \E inp \in InputTexts : StartDD(inp)
    \/ \E i \in Interactions, opt \in Options : ConfirmReply(i, opt, MaxRuns)
    \/ \E d \in dev_items, m \in Mountpoints : EnvMount(d, m)
    \/ \E d \in dev_items : EnvUnplug(d)
    \/ EnvLsblk

SpecTools == InitTools /\ [][NextTools]_vars

(* ------------------------------- claims -------------------------------- *)
\* C1: a worker, and with it a copy command and a copy subprocess, exists only
\* for a commit whose exclusive open of the target succeeded and whose dialog
\* returned Ok, and its command names, right after "dd", if= the image and of=
\* the device that this commit checked and showed.
C1_SpawnOnlyAfterGates ==
    \A w \in Runs :
        LET g == workers[w].gate
            c == workers[w].cmd
        IN /\ g.excl = "OK" /\ g.reply = "Ok"
           /\ path_exists(g.infile)
           /\ \E d \in dev_items : g.ofile = <<d>>
           /\ \E k \in 1..(Len(c) - 2) :
                 /\ c[k] = <<"dd">>
                 /\ c[k + 1] = <<"if=">> \o g.infile
                 /\ c[k + 2] = <<"of=">> \o g.ofile

C1_Witness == \E w \in Runs : procs[w].st = "running"

\* C2: at most one copy subprocess runs at any time.
C2_AtMostOneRunning ==
    Cardinality({w \in Runs : procs[w].st \in {"running", "closed"}}) <= 1

\* C3: the operator is told that a run completed only when its subprocess
\* exited with status 0.
C3_CompletedOnlyOnSuccess ==
    \A w \in Runs : reported[w] = "Completed" =>
        procs[w].st = "exited" /\ procs[w].status = 0

\* C4: a run whose subprocess was terminated by a signal is never reported as
\* completed.
C4_TerminatedNeverCompleted ==
    \A w \in Runs :
        (procs[w].st = "exited" /\ procs[w].status < 0) => reported[w] # "Completed"

\* the texts of the progress events the lines of a stderr stream call for
RECURSIVE ProgressTexts(_)
ProgressTexts(lines) ==
    IF lines = <<>> THEN <<>>
    ELSE (IF ContainsBytes(Head(lines)) THEN <<Strip(Head(lines))>> ELSE <<>>)
         \o ProgressTexts(Tail(lines))

IsPrefix(a, b) == Len(a) <= Len(b) /\ a = SubSeq(b, 1, Len(a))

FinishedEmitted(w) ==
    \/ reported[w] # "none"
    \/ \E k \in 1..Len(queue) : queue[k].sig = "finished" /\ queue[k].src = w

\* C5: once finished is emitted for a run its subprocess has exited and its
\* exit status is in returncode, and when dd_finished runs for it every
\* progress event of the run has been delivered and none is left in the queue.
C5_FinishedLast ==
    \A w \in Runs :
        /\ FinishedEmitted(w) =>
              /\ procs[w].st = "exited"
              /\ workers[w].returncode = procs[w].status
              /\ procs[w].pipe = <<>>
        /\ reported[w] # "none" =>
              /\ received[w] = ProgressTexts(procs[w].written)
              /\ \A k \in 1..Len(queue) : queue[k].src # w

C5_Witness ==
    \E w \in Runs : reported[w] = "Completed" /\ Len(received[w]) = MaxLines

\* C6: the texts update_progress received for a run are, in order and without
\* repetition, those of the first byte-count lines its subprocess wrote.
C6_ProgressInOrder ==
    \A w \in Runs : IsPrefix(received[w], ProgressTexts(procs[w].written))

C6_Witness == \E w \in Runs : Len(received[w]) = MaxLines

\* C7: a commit whose exclusive open failed has ended without the dialog and
\* without a worker, with the Permission Error box for a permission failure and
\* the Device Busy box for every other failure.
C7_OpenFailureStops ==
    commit.excl \notin {"none", "OK"} =>
        /\ commit.pc = "idle" /\ commit.reply = "none" /\ commit.spawned = 0
        /\ commit.box = IF commit.excl = "EACCES" THEN "Permission Error"
                        ELSE "Device Busy"

C7_Witness == commit.excl = "EACCES" /\ commit.box = "Permission Error"

\* a start_dd that reached the exclusive open of the selected device
CheckStep(d) ==
    /\ commit.pc = "idle" /\ commit' # commit /\ commit'.excl # "none"
    /\ Strip(dev_combo) = <<d>>

\* C8 as stated: the check of a device with a mountpoint yields Busy whatever
\* the privileges of the process.
C8_MountedIsBusy ==
    [][\A d \in dev_items : (CheckStep(d) /\ blk[d].mounts # {}) =>
            commit'.excl = "EBUSY"]_vars

\* C8, amended: the check of a device with a mountpoint never yields Ok: it
\* yields Busy when the process may write the device node and PermissionDenied
\* when it may not; the check of a device without mountpoint or other holder
\* yields Ok when the process may write the device node.
C8_MountedNeverOk ==
    [][\A d \in dev_items : CheckStep(d) =>
            /\ blk[d].mounts # {} =>
                  /\ commit'.pc = "idle"
                  /\ commit'.excl = IF host.canWrite THEN "EBUSY" ELSE "EACCES"
            /\ (blk[d].mounts = {} /\ ~blk[d].held /\ host.canWrite) =>
                  commit'.excl = "OK" /\ commit'.pc = "confirm"]_vars

C8_Witness ==
    /\ commit.excl = "EBUSY" /\ commit.box = "Device Busy"
    /\ \E d \in dev_items : blk[d].mounts # {} /\ ~blk[d].held

\* C9: the command of every worker starts with dd for the superuser, and
\* otherwise with sudo if sudo is present, else with doas if doas is present,
\* else with pkexec if pkexec is present, each followed by dd; the Privileges
\* error is shown only when the process is not superuser and none is present.
C9_PrefixPriority ==
    /\ \A w \in Runs :
          LET c == workers[w].cmd
          IN /\ host.root => c[1] = <<"dd">>
             /\ ~host.root => c[2] = <<"dd">>
             /\ (~host.root /\ host.sudo) => c[1] = <<"sudo">>
             /\ (~host.root /\ ~host.sudo /\ host.doas) => c[1] = <<"doas">>
             /\ (~host.root /\ ~host.sudo /\ ~host.doas /\ host.pkexec) =>
                   c[1] = <<"pkexec">>
    /\ commit.box = "Privileges" =>
          ~host.root /\ ~host.sudo /\ ~host.doas /\ ~host.pkexec

C9_Witness ==
    /\ ~host.root /\ ~host.sudo /\ ~host.doas /\ host.pkexec
    /\ \E w \in Runs : workers[w].cmd[1] = <<"pkexec">> /\ procs[w].st = "running"

\* C10: on a host where the process is not superuser and sudo, doas and pkexec
\* are all missing, no worker is ever created and no subprocess launched; an
\* accepted commit ends with the Privileges error box.
C10_UnavailableStops ==
    (~host.root /\ ~host.sudo /\ ~host.doas /\ ~host.pkexec) =>
        /\ workers = <<>> /\ procs = <<>>
        /\ commit.reply = "Ok" => commit.box = "Privileges" /\ commit.spawned = 0

C10_Witness == commit.reply = "Ok" /\ commit.box = "Privileges"

\* what DDGui holds apart from the record of the commit under way
GuiState == <<dev_combo, dev_size_label, buttons, progress_display, workers,
              procs, queue, received, reported, crashed>>

\* C11: the dialog is answered with Ok only by a click on OK; Enter (the
\* default button), Cancel and Escape are answered with Cancel, and a commit
\* answered with Cancel ends without error box, command, worker or subprocess
\* and with the widgets, the workers and the event queue as they were when
\* Start was pressed (start_dd changes none of them before the dialog).
C11_RejectIsNoOp ==
    [][/\ (commit.pc = "idle" /\ commit'.pc = "confirm") =>
             \A inp \in InputTexts : StartDD(inp) => UNCHANGED GuiState
       /\ commit.pc = "confirm" =>
             \A i \in Interactions, opt \in Options :
                ConfirmReply(i, opt, MaxRuns) =>
                   /\ (commit'.reply = "Ok") <=> (i = "click_ok")
                   /\ i # "click_ok" =>
                         /\ commit'.reply = "Cancel" /\ commit'.pc = "idle"
                         /\ commit'.box = "none" /\ commit'.spawned = 0
                         /\ UNCHANGED GuiState]_vars

C11_Witness ==
    /\ commit.reply = "Cancel" /\ commit.pc = "idle" /\ commit.excl = "OK"
    /\ workers = <<>> /\ progress_display = <<>>

\* C12: the command of a worker created under the settings bs, sync, prog is
\* the list of the prefix if the process is not superuser, then "dd", then
\* "if=" with the image path, "of=" with the device path and "bs=" with the
\* block size as one item each, then "oflag=sync" iff sync is checked, then
\* "status=progress" iff progress is checked, and nothing else; the arguments
\* of the launched subprocess are the items of that list.
C12_CommandTokens ==
    [][/\ Len(workers') > Len(workers) =>
             \A i \in Interactions, opt \in AllOptions :
                ConfirmReply(i, opt, MaxRuns) =>
                LET c == workers'[Len(workers')].cmd
                    n == IF host.root THEN 0 ELSE 1
                IN /\ n = 1 => c[1] \in {<<"sudo">>, <<"doas">>, <<"pkexec">>}
                   /\ c[n + 1] = <<"dd">>
                   /\ c[n + 2] = <<"if=">> \o commit.infile
                   /\ c[n + 3] = <<"of=">> \o commit.ofile
                   /\ c[n + 4] = <<"bs=", opt.bs>>
                   /\ Len(c) = n + 4 + (IF opt.sync THEN 1 ELSE 0)
                                     + (IF opt.prog THEN 1 ELSE 0)
                   /\ opt.sync => c[n + 5] = <<"oflag=sync">>
                   /\ opt.prog => c[Len(c)] = <<"status=progress">>
       /\ \A w \in 1..Len(procs') :
             procs'[w].st = "running" => procs'[w].argv = workers'[w].cmd]_vars

C12_Witness ==
    \E w \in Runs :
        /\ procs[w].st = "running"
        /\ procs[w].argv = << <<"doas">>, <<"dd">>, <<"if=", "/tmp/a.img">>,
                              <<"of=", "/dev/sdb">>, <<"bs=", "64k">>,
                              <<"status=progress">> >>

\* C13: the exclusive open of the target is made right before the launch,
\* with no wait for the operator in between: whenever a worker is created,
\* the target can at that moment be opened exclusively (it is not mounted,
\* not held and not gone).
C13_CheckedAtLaunch ==
    [][Len(workers') > Len(workers) => os_open_excl(commit.ofile) = "OK"]_vars

\* the text of input_edit, stripped, names an existing file
SourceExists(inp) == \E f \in Files : Strip(inp) = <<f>>

\* C14: a start_dd whose input names no existing file ends with the Error
\* box and nothing else: the device is not opened, the dialog is not shown,
\* nothing is created; the device is opened only for an existing input; and
\* the block size of every command is one of 64k, 256k, 512k, 1M, 2M (no
\* other value can be selected).
C14_SourceValidatedFirst ==
    [][/\ (commit.pc = "idle" /\ commit' # commit) =>
             \A inp \in InputTexts :
                StartDD(inp) =>
                   /\ ~SourceExists(inp) =>
                         commit' = [NoCommit EXCEPT !.box = "Error"]
                         /\ UNCHANGED GuiState
                   /\ commit'.excl # "none" => SourceExists(inp)
       /\ \A w \in 1..Len(workers') :
             \E b \in BlockSizes, k \in 1..Len(workers'[w].cmd) :
                 workers'[w].cmd[k] = <<"bs=", b>>]_vars

C14_Witness ==
    /\ commit.box = "Error" /\ commit.excl = "none" /\ commit.reply = "none"
    /\ workers = <<>> /\ start_btn

\* the byte count a progress text starts with
BytesOf(text) == CHOOSE n \in 0..MaxLines : ToString(n) = text[1]

\* bytes copied over total, in percent, clamped to 0..100
Percent(b, total) ==
    LET q == (100 * b) \div total
    IN IF q > 100 THEN 100 ELSE IF q < 0 THEN 0 ELSE q

\* C15: once update_progress has run for a byte-count line of a run whose
\* image size is known, the window shows the percentage that the bytes of the
\* last such line are of the image size, clamped to 0..100.
C15_PercentShown ==
    \A w \in Runs :
        (received[w] # <<>> /\ image_size_bytes > 0) =>
            eta_label[2] = ToString(Percent(BytesOf(received[w][Len(received[w])]),
                                            image_size_bytes))

\* C16: when a run is over, every line its subprocess wrote to stderr, with
\* or without a byte count, is in the log of the window.
C16_LogKeepsEveryLine ==
    \A w \in Runs :
        reported[w] # "none" =>
            \A k \in 1..Len(procs[w].written) :
                \E j \in 1..Len(progress_display) :
                    progress_display[j] = Strip(procs[w].written[k])

\* C17: no failure of lsblk (not found, no output for a disk that is gone)
\* leaves update_dev_capacity or the confirmation step of start_dd as an
\* exception: the handlers that run them return.
C17_QueriesNeverRaise ==
    [][(\/ RefreshDevices
        \/ \E d \in dev_items : SelectDevice(d)
        \/ UnmountDevice /\ has_sudo
        \/ \E inp \in InputTexts : StartDD(inp)) => ~crashed']_vars

\* C18: a worker whose subprocess could not be launched has an outcome for
\* the foreground: one that is not a completion has been shown for it, or
\* its signal is in the event queue.  (run() ends where the launch fails, so
\* what it has not emitted by then it never emits.)
C18_LaunchFailureSurfaced ==
    \A w \in Runs :
        workers[w].pc = "raised" =>
            \/ reported[w] \notin {"none", "Completed"}
            \/ \E k \in 1..Len(queue) : queue[k].src = w /\ queue[k].sig # "progress"

\* a handler step in which update_dev_capacity ran to its end for a device
UpdateStep ==
    /\ \/ RefreshDevices /\ dev_items # {}
       \/ \E d \in dev_items : SelectDevice(d)
       \/ UnmountDevice /\ has_sudo /\ Strip(dev_combo) # <<>>
    /\ ~crashed'

\* C19: after every update_dev_capacity for a device, that after
\* unmount_device included, Start is enabled iff the selected disk showed no
\* mountpoint to the query (it has none, or it is gone) and Unmount is enabled
\* iff it showed one, so exactly one of the two is enabled; this also when
\* the size query failed and the label reads N/A.
C19_ButtonsFollowMounts ==
    [][UpdateStep =>
          LET mounted == \E d \in dev_items :
                            dev_combo' = <<d>> /\ ~blk[d].gone /\ blk[d].mounts # {}
              sized == \E d \in dev_items : dev_combo' = <<d>> /\ ~blk[d].gone
          IN /\ start_btn' = ~mounted
             /\ unmount_btn' = mounted
             /\ start_btn' # unmount_btn'
             /\ ~sized => dev_size_label' = <<"Device Capacity: ", "N/A">>]_vars

C19_Witness ==
    /\ ~crashed /\ commit.pc = "idle"
    /\ dev_size_label = <<"Device Capacity: ", "N/A">>
    /\ start_btn /\ ~unmount_btn
    /\ \E d \in dev_items : dev_combo = <<d>> /\ blk[d].gone /\ blk[d].mounts # {}

\* C20: the command of a worker starts with sudo, doas or pkexec only when
\* the process, not being superuser, had itself opened the device exclusively
\* for writing; on a host where the process is not superuser and may not
\* write the device node, every start_dd that opens a listed device ends with
\* the Permission Error box, the dialog is never shown and no worker is ever
\* created.
C20_PrefixOnlyWhenWritable ==
    /\ \A w \in Runs :
          workers[w].cmd[1] \in {<<"sudo">>, <<"doas">>, <<"pkexec">>} =>
              ~host.root /\ host.canWrite /\ workers[w].gate.excl = "OK"
    /\ (~host.root /\ ~host.canWrite) =>
          /\ workers = <<>> /\ procs = <<>>
          /\ commit.pc = "idle" /\ commit.reply = "none"
          /\ (commit.excl # "none" /\ dev_items # {}) =>
                commit.excl = "EACCES" /\ commit.box = "Permission Error"

C20_Witness ==
    /\ ~host.root /\ ~host.canWrite /\ host.sudo
    /\ commit.excl = "EACCES" /\ commit.box = "Permission Error"
    /\ \E d \in dev_items : blk[d].mounts = {} /\ ~blk[d].held
====
